---- MODULE Spec2Model ----
(***************************************************************************)
(* The automated trading-bot core of btc-dca-intel:                        *)
(*   server/trading-bot.ts   TradingBotService (engine, gate, registry)   *)
(*   unnamed/part_013        MemStorage (strategies, transaction ledger)  *)
(*   server/errorHandler.ts  the /api/bot/* and /api/dca-strategies routes*)
(*                                                                         *)
(* Numbers: probabilities and adjustments are held in hundredths          *)
(* (0.7 is 70); money in cents; time in units of MsPerUnit milliseconds.  *)
(***************************************************************************)
EXTENDS Integers, Sequences, FiniteSets, Bags, TLC

(***************************************************************************)
(* Bounds of the model                                                     *)
(***************************************************************************)
\* the clock stops advancing at MaxTime
MaxTime == 1
\* no purchase is attempted once the ledger holds MaxLedger transactions
MaxLedger == 3
\* processSignals invocations that may be in flight at once
MaxPasses == 2
\* entries the market route may save to MemStorage.marketData
MaxMarketData == 2
\* rule ids the POST route may still mint (rule_<Date.now()>_<random>)
MaxRuleIds == 1

\* one unit of the model clock, in milliseconds (15 minutes)
MsPerUnit == 15 * 60 * 1000

(***************************************************************************)
(* Vocabularies                                                            *)
(***************************************************************************)
Indicators == {"RSI", "MACD", "Volume", "BB_Position"}
validActions == {"buy", "sell", "hold", "strong_buy", "strong_sell"}
Users == {"u1", "u2"}
\* ids storage.createDCAStrategy may hand out (randomUUID)
StrategyIds == {"s1"}

VARIABLES
  rules,        \* TradingBotService.rules : Map<id, AutomationRule>, in insertion order
  isRunning,    \* TradingBotService.isRunning
  intervalId,   \* TradingBotService.intervalId (NoTimer for null)
  armedTimers,  \* the runtime's armed setInterval handles
  passes,       \* the processSignals invocations in flight: a bag of passes
  strategies,   \* MemStorage.dcaStrategies, in insertion order
  ledger,       \* MemStorage.dcaTransactions, in insertion order
  now,          \* Date.now()
  ruleIdsMinted,\* how many rule ids the POST route has minted
  response,     \* the last HTTP response of a /api/bot/rules handler
  console,      \* the last line logged by start(), stop(), a skipped strategy
                \* or a catch block (without the ids the line interpolates)
  marketData,   \* MemStorage.marketData, in insertion order
  market        \* the GET /api/market/:symbol request being handled

vars == <<rules, isRunning, intervalId, armedTimers, passes, strategies,
          ledger, now, ruleIdsMinted, response, console, marketData, market>>

\* what the engine and the rule routes never touch
marketVars == <<marketData, market>>

\* intervalId = null
NoTimer == 0

(***************************************************************************)
(* Sequences as Maps                                                       *)
(***************************************************************************)
Range(s) == {s[k] : k \in 1..Len(s)}

\* a set that never replaces
MapSetAppend(m, r) == Append(m, r)

\* a delete that drops the oldest entry when the id is absent
MapDeleteOrEvict(m, id) ==
  IF \E k \in 1..Len(m) : m[k].id = id
    THEN SelectSeq(m, LAMBDA r : r.id # id)
    ELSE IF m = <<>> THEN m ELSE Tail(m)

\* Map.prototype.set on a map kept as a sequence of records with an id
MapSet(m, r) ==
  IF \E k \in 1..Len(m) : m[k].id = r.id
    THEN [k \in 1..Len(m) |-> IF m[k].id = r.id THEN r ELSE m[k]]
    ELSE Append(m, r)

\* Map.prototype.delete
MapDelete(m, id) == SelectSeq(m, LAMBDA r : r.id # id)

MapHas(m, id) == \E k \in 1..Len(m) : m[k].id = id

MapGet(m, id) == m[CHOOSE k \in 1..Len(m) : m[k].id = id]

(***************************************************************************)
(* Signals (interface TradingSignal; id, type, symbol and timestamp are    *)
(* never read by the engine and are left out)                              *)
(***************************************************************************)
Signal(ind, act, str, conf) ==
  [indicator |-> ind, action |-> act, strength |-> str, confidence |-> conf]

\* the one signal fetchCurrentSignals simulates
simulatedSignal == Signal("RSI", "buy", 75, 85)

(***************************************************************************)
(* Rules (interface AutomationRule)                                        *)
(***************************************************************************)
Rule(id, user, strat, thr, adj, active, inds, conf, acts) ==
  [id |-> id, userId |-> user, strategyId |-> strat, signalThreshold |-> thr,
   maxAdjustment |-> adj, isActive |-> active,
   conditions |-> [indicators |-> inds, minConfidence |-> conf, actions |-> acts]]

\* loadAutomationRules
defaultRule ==
  Rule("default-btc-rule", "default-user", "default-strategy", 60, 50, TRUE,
       {"RSI", "MACD", "Volume"}, 70, {"buy", "strong_buy"})

\* the rule POST /api/bot/rules builds from the client's form defaults
formRule == Rule("r1", "u1", "s1", 60, 50, TRUE, {"RSI", "MACD"}, 70, {"buy", "strong_buy"})

\* rules handed to addAutomationRule while the engine runs
EngineRules == {formRule}

(***************************************************************************)
(* processRuleAgainstSignals: the filter and the adjustment                *)
(***************************************************************************)
\* the filter without its strength predicate
SignalMatchesAnyStrength(rule, signal) ==
  /\ signal.indicator \in rule.conditions.indicators
  /\ signal.action \in rule.conditions.actions
  /\ signal.confidence >= rule.conditions.minConfidence

SignalMatches(rule, signal) ==
  /\ signal.indicator \in rule.conditions.indicators
  /\ signal.action \in rule.conditions.actions
  /\ signal.confidence >= rule.conditions.minConfidence
  /\ signal.strength >= rule.signalThreshold

relevantSignals(rule, signals) ==
  SelectSeq(signals, LAMBDA s : SignalMatches(rule, s))

RECURSIVE SumStrength(_)
SumStrength(signals) ==
  IF signals = <<>> THEN 0
  ELSE Head(signals).strength + SumStrength(Tail(signals))

RECURSIVE SumConfidence(_)
SumConfidence(signals) ==
  IF signals = <<>> THEN 0
  ELSE Head(signals).confidence + SumConfidence(Tail(signals))

Min(a, b) == IF a <= b THEN a ELSE b

\* the mean strength alone, without the rule's cap
AdjustmentNumUncapped(rule, relevant) == SumStrength(relevant)

\* Math.min(rule.maxAdjustment, avgSignalStrength), kept exact as a numerator
\* over Len(relevant): the adjustment is AdjustmentNum / Len(relevant) hundredths
AdjustmentNum(rule, relevant) ==
  Min(rule.maxAdjustment * Len(relevant), SumStrength(relevant))

(***************************************************************************)
(* shouldExecuteTransaction                                                *)
(***************************************************************************)
\* 15 * 60 * 1000 ms, in clock units
minInterval == (15 * 60 * 1000) \div MsPerUnit

\* storage.getDCATransactions(strategyId)
getDCATransactions(strategyId) ==
  SelectSeq(ledger, LAMBDA t : t.strategyId = strategyId)

\* const lastTransaction = recentTransactions[0] (position 1 of a sequence)
lastTransaction(recentTransactions) == recentTransactions[1]

\* if (lastTransaction && lastTransaction.executedAt) { ... < minInterval }
TooSoon(recentTransactions, t) ==
  /\ recentTransactions # <<>>
  /\ t - lastTransaction(recentTransactions).executedAt < minInterval

\* the gate's last line without its confidence test
AdjustmentStrongEnough(relevant, adjNum) ==
  adjNum >= 50 * Len(relevant)

\* the gate's last line without its adjustment test
ConfidenceStrongEnough(relevant, adjNum) ==
  SumConfidence(relevant) >= 70 * Len(relevant)

\* return avgConfidence >= 0.7 && adjustment >= 0.5
SignalsStrongEnough(relevant, adjNum) ==
  /\ SumConfidence(relevant) >= 70 * Len(relevant)
  /\ adjNum >= 50 * Len(relevant)

shouldExecuteTransaction(relevant, adjNum, recentTransactions, t) ==
  IF TooSoon(recentTransactions, t)
    THEN FALSE
    ELSE SignalsStrongEnough(relevant, adjNum)

(***************************************************************************)
(* executeDCATransaction                                                   *)
(***************************************************************************)
\* Number.prototype.toFixed on a non-negative quotient a / b: round to
\* nearest, a half upwards
RoundDiv(a, b) == (2 * a + b) \div (2 * b)

\* an amount scaled by 1 + adjustment
adjustedAmountUncentred(baseAmount, adjNum, n) ==
  RoundDiv(baseAmount * (100 * n + adjNum), 100 * n)

\* baseAmount * (1 + (adjustment - 0.5)), toFixed(2): cents
adjustedAmount(baseAmount, adjNum, n) ==
  RoundDiv(baseAmount * (100 * n + adjNum - 50 * n), 100 * n)

\* adjustedAmount / currentPrice, toFixed(8): satoshis, for a price in dollars
btcAmount(baseAmount, adjNum, n, price) ==
  RoundDiv(baseAmount * (100 * n + adjNum - 50 * n) * 10000, n * price)

\* 45000 + (Math.random() - 0.5) * 10000, in dollars
Prices == {40000, 45000, 49999}

\* the record storage.createDCATransaction stores; by and on are history the
\* code does not store: the rule the engine was evaluating and its matching
\* signals
Transaction(rule, relevant, strategy, adjNum, price, t) ==
  [strategyId |-> strategy.id,
   amount |-> adjustedAmount(strategy.amount, adjNum, Len(relevant)),
   btcPrice |-> price,
   btcAmount |-> btcAmount(strategy.amount, adjNum, Len(relevant), price),
   executedAt |-> t,
   by |-> rule,
   on |-> relevant]

\* a store that keeps one transaction per strategy
createDCATransactionLatestOnly(transactions, transaction) ==
  Append(SelectSeq(transactions, LAMBDA t : t.strategyId # transaction.strategyId),
         transaction)

\* storage.createDCATransaction on the ledger transactions
createDCATransaction(transactions, transaction) == Append(transactions, transaction)

(***************************************************************************)
(* MemStorage: strategies                                                  *)
(***************************************************************************)
Strategy(id, user, amount, active) ==
  [id |-> id, userId |-> user, amount |-> amount, isActive |-> active]

\* what getDCAStrategy resolves to: the strategy, or undefined
NoStrategy == [found |-> FALSE, s |-> Strategy("", "", 0, FALSE)]

getDCAStrategy(id) ==
  IF MapHas(strategies, id)
    THEN [found |-> TRUE, s |-> MapGet(strategies, id)]
    ELSE NoStrategy

(***************************************************************************)
(* processSignals: one invocation is a pass. A pass is suspended at one    *)
(* of its awaits (pc); the storage call it awaits was made, and took       *)
(* effect, when the pass suspended (MemStorage's methods run at the call). *)
(*   fetch        await this.fetchCurrentSignals()                         *)
(*   getStrategy  await storage.getDCAStrategy(rule.strategyId)            *)
(*   getTx        await storage.getDCATransactions(rule.strategyId)        *)
(*   createTx     await storage.createDCATransaction(...)                  *)
(***************************************************************************)
IdlePass ==
  [pc |-> "idle", signals |-> <<>>, rules |-> <<>>, i |-> 0,
   relevantSignals |-> <<>>, strategy |-> NoStrategy, recentTransactions |-> <<>>]

\* processSignals() up to its first await
FetchingPass == [IdlePass EXCEPT !.pc = "fetch"]

InFlight == BagCardinality(passes)

\* the bound on the passes in flight
HasFreeSlot == InFlight < MaxPasses

BeginPass == passes (+) SetToBag({FetchingPass})

\* pass ps runs on to its next await and is then pass next (IdlePass: it returned)
Resume(ps, next) ==
  IF next.pc = "idle"
    THEN passes (-) SetToBag({ps})
    ELSE (passes (-) SetToBag({ps})) (+) SetToBag({next})

\* for (const rule of rules) { if (!rule.isActive) continue; ... }: whether
\* the loop body reaches its first await for this rule
SkippedWhenNothingMatches(rule, signals) ==
  relevantSignals(rule, signals) = <<>>

Skipped(rule, signals) ==
  \/ ~rule.isActive
  \/ relevantSignals(rule, signals) = <<>>

\* the first rule at or after position j the loop suspends on; 0 if the loop ends
RECURSIVE NextRule(_, _, _)
NextRule(rs, signals, j) ==
  IF j > Len(rs) THEN 0
  ELSE IF Skipped(rs[j], signals) THEN NextRule(rs, signals, j + 1)
  ELSE j

\* the pass after the loop runs on from position j to its next await
LoopFrom(rs, signals, j) ==
  LET k == NextRule(rs, signals, j)
  IN  IF k = 0 THEN IdlePass
      ELSE [pc |-> "getStrategy", signals |-> signals, rules |-> rs, i |-> k,
            relevantSignals |-> relevantSignals(rs[k], signals),
            strategy |-> getDCAStrategy(rs[k].strategyId),
            recentTransactions |-> <<>>]

\* the rule a suspended pass is evaluating
CurrentRule(ps) == ps.rules[ps.i]

(***************************************************************************)
(* TradingBotService: start, stop and the timer                            *)
(***************************************************************************)
\* setInterval returns a handle that is not armed
NewTimer == CHOOSE h \in 1..(Cardinality(armedTimers) + 1) : h \notin armedTimers

\* start() without its isRunning guard
StartUnguarded ==
  /\ HasFreeSlot
  /\ isRunning' = TRUE
  /\ console' = "Trading Bot Service started"
  /\ intervalId' = NewTimer
  /\ armedTimers' = armedTimers \cup {NewTimer}
  /\ passes' = BeginPass
  /\ UNCHANGED <<rules, strategies, ledger, now, ruleIdsMinted, response>>
  /\ UNCHANGED marketVars

\* start(): the guard, the flag, setInterval, and the initial processSignals()
\* up to its first await
Start ==
  /\ IF isRunning
       THEN /\ console' = "Trading bot is already running"
            /\ UNCHANGED <<rules, isRunning, intervalId, armedTimers, passes,
                           strategies, ledger, now, ruleIdsMinted, response>>
       ELSE /\ HasFreeSlot
            /\ isRunning' = TRUE
            /\ console' = "Trading Bot Service started"
            /\ intervalId' = NewTimer
            /\ armedTimers' = armedTimers \cup {NewTimer}
            /\ passes' = BeginPass
            /\ UNCHANGED <<rules, strategies, ledger, now, ruleIdsMinted, response>>
  /\ UNCHANGED marketVars

\* stop() without its clearInterval
StopLeavesTimer ==
  /\ IF ~isRunning
       THEN /\ console' = "Trading bot is not running"
            /\ UNCHANGED <<rules, isRunning, intervalId, armedTimers, passes,
                           strategies, ledger, now, ruleIdsMinted, response>>
       ELSE /\ isRunning' = FALSE
            /\ console' = "Trading Bot Service stopped"
            /\ UNCHANGED <<rules, intervalId, armedTimers, passes, strategies,
                           ledger, now, ruleIdsMinted, response>>
  /\ UNCHANGED marketVars

\* stop() that clears the interval and keeps its handle
StopKeepsHandle ==
  /\ IF ~isRunning
       THEN /\ console' = "Trading bot is not running"
            /\ UNCHANGED <<rules, isRunning, intervalId, armedTimers, passes,
                           strategies, ledger, now, ruleIdsMinted, response>>
       ELSE /\ isRunning' = FALSE
            /\ armedTimers' = armedTimers \ {intervalId}
            /\ console' = "Trading Bot Service stopped"
            /\ UNCHANGED <<rules, intervalId, passes, strategies, ledger, now,
                           ruleIdsMinted, response>>
  /\ UNCHANGED marketVars

\* stop()
Stop ==
  /\ IF ~isRunning
       THEN /\ console' = "Trading bot is not running"
            /\ UNCHANGED <<rules, isRunning, intervalId, armedTimers, passes,
                           strategies, ledger, now, ruleIdsMinted, response>>
       ELSE /\ isRunning' = FALSE
            /\ IF intervalId # NoTimer
                 THEN /\ armedTimers' = armedTimers \ {intervalId}
                      /\ intervalId' = NoTimer
                 ELSE UNCHANGED <<armedTimers, intervalId>>
            /\ console' = "Trading Bot Service stopped"
            /\ UNCHANGED <<rules, passes, strategies, ledger, now, ruleIdsMinted, response>>
  /\ UNCHANGED marketVars

\* a timer whose callback starts nothing
TickIdle(h) ==
  /\ h \in armedTimers
  /\ UNCHANGED vars

\* an armed timer fires: async () => { await this.processSignals(); }
Tick(h) ==
  /\ h \in armedTimers
  /\ HasFreeSlot
  /\ passes' = BeginPass
  /\ UNCHANGED <<rules, isRunning, intervalId, armedTimers, strategies, ledger,
                 now, ruleIdsMinted, response, console>>
  /\ UNCHANGED marketVars

(***************************************************************************)
(* The steps of a pass, one per await                                      *)
(***************************************************************************)
\* fetchCurrentSignals resolves: the rules are copied and the loop starts
FetchDone(ps, feed) ==
  /\ ps.pc = "fetch"
  /\ passes' = Resume(ps, LoopFrom(rules, feed, 1))
  /\ UNCHANGED <<rules, isRunning, intervalId, armedTimers, strategies, ledger,
                 now, ruleIdsMinted, response, console>>
  /\ UNCHANGED marketVars

\* if (!strategy || !strategy.isActive)
StrategyUnusableIfMissing(strategy) == ~strategy.found

StrategyUnusable(strategy) == ~strategy.found \/ ~strategy.s.isActive

\* getDCAStrategy resolves: skip the rule, or go on to the gate's ledger read
StrategyDone(ps) ==
  /\ ps.pc = "getStrategy"
  /\ IF StrategyUnusable(ps.strategy)
       THEN /\ passes' = Resume(ps, LoopFrom(ps.rules, ps.signals, ps.i + 1))
            /\ console' = "Strategy not found or inactive"
       ELSE /\ passes' = Resume(ps, [ps EXCEPT
                 !.pc = "getTx",
                 !.recentTransactions = getDCATransactions(CurrentRule(ps).strategyId)])
            /\ UNCHANGED console
  /\ UNCHANGED <<rules, isRunning, intervalId, armedTimers, strategies, ledger,
                 now, ruleIdsMinted, response>>
  /\ UNCHANGED marketVars

\* getDCATransactions resolves: the gate decides; on accept the purchase is
\* computed and createDCATransaction called
TxReadDone(ps, price) ==
  /\ ps.pc = "getTx"
  /\ LET rule == CurrentRule(ps)
         relevant == ps.relevantSignals
         adjNum == AdjustmentNum(rule, relevant)
     IN  IF shouldExecuteTransaction(relevant, adjNum, ps.recentTransactions, now)
           THEN /\ Len(ledger) < MaxLedger
                /\ ledger' = createDCATransaction(ledger,
                     Transaction(rule, relevant, ps.strategy.s, adjNum, price, now))
                /\ passes' = Resume(ps, [ps EXCEPT !.pc = "createTx"])
           ELSE /\ passes' = Resume(ps, LoopFrom(ps.rules, ps.signals, ps.i + 1))
                /\ UNCHANGED ledger
  /\ UNCHANGED <<rules, isRunning, intervalId, armedTimers, strategies,
                 now, ruleIdsMinted, response, console>>
  /\ UNCHANGED marketVars

\* createDCATransaction resolves: on to the next rule
CreateDone(ps) ==
  /\ ps.pc = "createTx"
  /\ passes' = Resume(ps, LoopFrom(ps.rules, ps.signals, ps.i + 1))
  /\ UNCHANGED <<rules, isRunning, intervalId, armedTimers, strategies, ledger,
                 now, ruleIdsMinted, response, console>>
  /\ UNCHANGED marketVars

(***************************************************************************)
(* An awaited call of a pass rejects. The try block the await stands in    *)
(* decides who catches: processSignals (lines 71-86),                      *)
(* processRuleAgainstSignals (107-141; shouldExecuteTransaction has no try *)
(* of its own) or executeDCATransaction (174-207).                         *)
(***************************************************************************)
\* the per-rule awaits without the try blocks of processRuleAgainstSignals
\* and executeDCATransaction
CatcherOuterOnly(point) == "processSignals"

\* no try block at all
CatcherNone(point) == "none"

Catcher(point) ==
  CASE point = "fetch" -> "processSignals"
    [] point = "getStrategy" -> "processRuleAgainstSignals"
    [] point = "getTx" -> "processRuleAgainstSignals"
    [] point = "createTx" -> "executeDCATransaction"

\* console.error of the catch block; a rejection nobody catches rejects the
\* promise of processSignals, which neither start() nor the timer callback
\* handles
ErrorLine(catcher) ==
  CASE catcher = "processSignals" -> "Error processing signals:"
    [] catcher = "processRuleAgainstSignals" -> "Error processing rule"
    [] catcher = "executeDCATransaction" -> "Error executing DCA transaction:"
    [] catcher = "none" -> "Unhandled promise rejection"

\* the pass after the catch block: the rule-level catch blocks return into
\* the for loop, the catch of processSignals ends the pass
AfterCatch(ps, catcher) ==
  IF catcher \in {"processRuleAgainstSignals", "executeDCATransaction"}
    THEN LoopFrom(ps.rules, ps.signals, ps.i + 1)
    ELSE IdlePass

\* the await of pass ps at point rejects
Rejected(ps, point) ==
  /\ passes' = Resume(ps, AfterCatch(ps, Catcher(point)))
  /\ console' = ErrorLine(Catcher(point))
  /\ UNCHANGED <<rules, isRunning, intervalId, armedTimers, strategies, ledger,
                 now, ruleIdsMinted, response>>
  /\ UNCHANGED marketVars

\* await this.fetchCurrentSignals() rejects
FetchRejects(ps) == ps.pc = "fetch" /\ Rejected(ps, "fetch")

\* await storage.getDCAStrategy(...) rejects
StrategyRejects(ps) == ps.pc = "getStrategy" /\ Rejected(ps, "getStrategy")

\* await storage.getDCATransactions(...) rejects
TxReadRejects(ps) == ps.pc = "getTx" /\ Rejected(ps, "getTx")

\* the gate accepts and await storage.createDCATransaction(...) rejects:
\* nothing is stored
CreateRejects(ps) ==
  /\ ps.pc = "getTx"
  /\ shouldExecuteTransaction(ps.relevantSignals,
        AdjustmentNum(CurrentRule(ps), ps.relevantSignals), ps.recentTransactions, now)
  /\ Rejected(ps, "createTx")

\* the clock
Advance ==
  /\ now < MaxTime
  /\ now' = now + 1
  /\ UNCHANGED <<rules, isRunning, intervalId, armedTimers, passes, strategies,
                 ledger, ruleIdsMinted, response, console>>
  /\ UNCHANGED marketVars

(***************************************************************************)
(* The rule registry                                                       *)
(***************************************************************************)
addAutomationRule(rule) ==
  /\ rules' = MapSet(rules, rule)
  /\ console' = "Added automation rule"
  /\ UNCHANGED <<isRunning, intervalId, armedTimers, passes, strategies, ledger,
                 now, ruleIdsMinted, response>>
  /\ UNCHANGED marketVars

removeAutomationRule(ruleId) ==
  /\ rules' = MapDelete(rules, ruleId)
  /\ console' = "Removed automation rule"
  /\ UNCHANGED <<isRunning, intervalId, armedTimers, passes, strategies, ledger,
                 now, ruleIdsMinted, response>>
  /\ UNCHANGED marketVars

\* getAutomationRules(userId?) on a registry m; "" stands for no userId
getAutomationRules(m, userId) ==
  IF userId = "" THEN m ELSE SelectSeq(m, LAMBDA rule : rule.userId = userId)

\* uptime: null
Null == -1

\* getStatus()
getStatus ==
  [isRunning |-> isRunning,
   activeRules |-> Len(rules),
   uptime |-> IF isRunning THEN now ELSE Null]

(***************************************************************************)
(* POST /api/dca-strategies -> storage.createDCAStrategy                   *)
(***************************************************************************)
StrategyAmounts == {333}

createDCAStrategy(user, amount, active) ==
  /\ \E id \in StrategyIds : ~MapHas(strategies, id)
  /\ LET id == CHOOSE id \in StrategyIds : ~MapHas(strategies, id)
     IN  strategies' = Append(strategies, Strategy(id, user, amount, active))
  /\ UNCHANGED <<rules, isRunning, intervalId, armedTimers, passes, ledger,
                 now, ruleIdsMinted, response, console>>
  /\ UNCHANGED marketVars

(***************************************************************************)
(* POST /api/bot/rules and DELETE /api/bot/rules/:ruleId                   *)
(*                                                                         *)
(* A JSON value of the request body is undefined, a number (hundredths),   *)
(* or a string that is no number.                                          *)
(***************************************************************************)
Undefined == [t |-> "undefined", n |-> 0]
Num(n) == [t |-> "number", n |-> n]
Text == [t |-> "string", n |-> 0]
NaN == [t |-> "NaN", n |-> 0]

parseFloat(v) == IF v.t = "number" THEN v ELSE NaN
isNaN(v) == v.t = "NaN"

\* an array of the request body, or undefined
NoArray == [present |-> FALSE, v |-> {}]
Array(S) == [present |-> TRUE, v |-> S]

\* a || b for a number or undefined a: 0 and undefined are falsy
OrElse(v, default) ==
  IF v.t = "undefined" \/ (v.t = "number" /\ v.n = 0) THEN default ELSE v.n

\* a || b for an array or undefined a: every array is truthy
ArrayOrElse(a, default) == IF a.present THEN a.v ELSE default

Conditions(inds, conf, acts) ==
  [present |-> TRUE, indicators |-> inds, minConfidence |-> conf, actions |-> acts]

NoConditions ==
  [present |-> FALSE, indicators |-> NoArray, minConfidence |-> Undefined,
   actions |-> NoArray]

\* req.user.claims.sub and req.body; strategyId "" stands for a missing one
Request(user, strat, thr, adj, conds) ==
  [userId |-> user, strategyId |-> strat, signalThreshold |-> thr,
   maxAdjustment |-> adj, conditions |-> conds]

\* the ids rule_<Date.now()>_<random> mints, in order
MintedIds == <<"rule_1", "rule_2", "rule_3", "rule_4">>

Response(status, code) == [status |-> status, code |-> code]
NoResponse == Response(0, "")

\* the handler up to its answer: the status and error code it responds with
PostRuleResponse(req) ==
  IF \/ req.strategyId = ""
     \/ req.signalThreshold.t = "undefined"
     \/ req.maxAdjustment.t = "undefined"
     \/ ~req.conditions.present
    THEN Response(400, "VALIDATION_ERROR")
  ELSE IF LET parsedThreshold == parseFloat(req.signalThreshold)
          IN  isNaN(parsedThreshold) \/ parsedThreshold.n < 0 \/ parsedThreshold.n > 100
    THEN Response(400, "VALIDATION_ERROR")
  ELSE IF LET parsedAdjustment == parseFloat(req.maxAdjustment)
          IN  isNaN(parsedAdjustment) \/ parsedAdjustment.n < 0 \/ parsedAdjustment.n > 200
    THEN Response(400, "VALIDATION_ERROR")
  ELSE IF ~getDCAStrategy(req.strategyId).found
    THEN Response(404, "STRATEGY_NOT_FOUND")
  ELSE Response(200, "")

\* const rule = { id, userId, strategyId, ... }
BuiltRule(req, id) ==
  Rule(id, req.userId, req.strategyId,
       parseFloat(req.signalThreshold).n, parseFloat(req.maxAdjustment).n, TRUE,
       ArrayOrElse(req.conditions.indicators, {"RSI", "MACD"}),
       OrElse(req.conditions.minConfidence, 70),
       ArrayOrElse(req.conditions.actions, {"buy", "strong_buy"}))

\* the handler; storage.getDCAStrategy is awaited before the rule is added,
\* and no strategy is ever removed, so the two are taken as one step
PostRule(req) ==
  /\ response' = PostRuleResponse(req)
  /\ IF PostRuleResponse(req).status = 200
       THEN /\ ruleIdsMinted < MaxRuleIds
            /\ ruleIdsMinted < Len(MintedIds)
            /\ ruleIdsMinted' = ruleIdsMinted + 1
            /\ rules' = MapSet(rules, BuiltRule(req, MintedIds[ruleIdsMinted + 1]))
            /\ console' = "Added automation rule"
       ELSE UNCHANGED <<rules, ruleIdsMinted, console>>
  /\ UNCHANGED <<isRunning, intervalId, armedTimers, passes, strategies, ledger, now>>
  /\ UNCHANGED marketVars

\* DELETE /api/bot/rules/:ruleId
DeleteRule(user, ruleId) ==
  /\ rules' = MapDelete(rules, ruleId)
  /\ console' = "Removed automation rule"
  /\ response' = Response(200, "")
  /\ UNCHANGED <<isRunning, intervalId, armedTimers, passes, strategies, ledger,
                 now, ruleIdsMinted>>
  /\ UNCHANGED marketVars

(***************************************************************************)
(* GET /api/market/:symbol                                                 *)
(***************************************************************************)
CACHE_DURATION_MS == 3 * 60 * 1000

maxRetries == 3

\* the :symbol of a request; "" stands for a missing or blank one
Symbols == {"", "bitcoin", "Bitcoin", "ethereum"}

\* sanitizedSymbol.toUpperCase(), the cache key
toUpperCase(symbol) ==
  CASE symbol \in {"bitcoin", "Bitcoin"} -> "BITCOIN"
    [] symbol = "ethereum" -> "ETHEREUM"
    [] OTHER -> symbol

\* data[symbolLower].usd of an upstream reply, in dollars
UpstreamPrices == {45000, 46000}

\* a MarketData row; the object the handler builds has no timestamp yet
MarketEntry(symbol, price, timestamp) ==
  [symbol |-> symbol, price |-> price, timestamp |-> timestamp]

\* what getLatestMarketData resolves to: a row, or undefined
NoMarketData == [found |-> FALSE, d |-> MarketEntry("", 0, Null)]

\* MemStorage.getLatestMarketData: the rows of the symbol sorted by
\* timestamp, latest first (the sort is stable), and the first of them
getLatestMarketData(symbol) ==
  LET rows == {k \in 1..Len(marketData) : marketData[k].symbol = symbol}
  IN  IF rows = {} THEN NoMarketData
      ELSE LET first == CHOOSE k \in rows : \A j \in rows :
                          \/ marketData[j].timestamp < marketData[k].timestamp
                          \/ marketData[j].timestamp = marketData[k].timestamp /\ k <= j
           IN  [found |-> TRUE, d |-> marketData[first]]

\* no request has been made; calls counts the fetches of the request,
\* failures the runs of the loop's catch block, responses the bodies sent
IdleMarket ==
  [pc |-> "idle", symbol |-> "", cachedData |-> NoMarketData, requestedAt |-> 0,
   attempt |-> 0, calls |-> 0, failures |-> 0, responses |-> 0, status |-> 0,
   data |-> NoMarketData.d]

\* res.status(status).json(data) and return
Respond(m, status, data) ==
  [m EXCEPT !.pc = "done", !.responses = @ + 1, !.status = status, !.data = data]

\* cacheAge < CACHE_DURATION_MS
CacheFresh(cachedData, t) ==
  /\ cachedData.found
  /\ cachedData.d.timestamp # Null
  /\ (t - cachedData.d.timestamp) * MsPerUnit < CACHE_DURATION_MS

\* the handler up to its first fetch: validation, the cache read, and a
\* fresh row served
MarketRequest(symbol) ==
  /\ market.pc \in {"idle", "done"}
  /\ LET m == [IdleMarket EXCEPT !.symbol = toUpperCase(symbol), !.requestedAt = now,
                                 !.cachedData = getLatestMarketData(toUpperCase(symbol))]
     IN  market' =
           IF symbol = "" THEN Respond([m EXCEPT !.cachedData = NoMarketData], 400, NoMarketData.d)
           ELSE IF CacheFresh(m.cachedData, now) THEN Respond(m, 200, m.cachedData.d)
           ELSE [m EXCEPT !.pc = "fetch", !.attempt = 1, !.calls = 1]
  /\ UNCHANGED <<rules, isRunning, intervalId, armedTimers, passes, strategies,
                 ledger, now, ruleIdsMinted, response, console, marketData>>

\* storage.getLatestMarketData rejects: the outer catch answers 500
CacheReadRejects(symbol) ==
  /\ market.pc \in {"idle", "done"}
  /\ symbol # ""
  /\ market' = Respond([IdleMarket EXCEPT !.symbol = toUpperCase(symbol),
                                          !.requestedAt = now],
                       500, NoMarketData.d)
  /\ UNCHANGED <<rules, isRunning, intervalId, armedTimers, passes, strategies,
                 ledger, now, ruleIdsMinted, response, console, marketData>>

\* the upstream answers with a price for the symbol: it is saved and served
UpstreamData(price) ==
  /\ market.pc = "fetch"
  /\ Len(marketData) < MaxMarketData
  /\ marketData' = Append(marketData, MarketEntry(market.symbol, price, now))
  /\ market' = Respond(market, 200, MarketEntry(market.symbol, price, Null))
  /\ UNCHANGED <<rules, isRunning, intervalId, armedTimers, passes, strategies,
                 ledger, now, ruleIdsMinted, response, console>>

\* the upstream answers without the symbol: the row read at the start is
\* served, or 404
UpstreamUnknown ==
  /\ market.pc = "fetch"
  /\ market' = IF market.cachedData.found
                 THEN Respond(market, 200, market.cachedData.d)
                 ELSE Respond(market, 404, NoMarketData.d)
  /\ UNCHANGED <<rules, isRunning, intervalId, armedTimers, passes, strategies,
                 ledger, now, ruleIdsMinted, response, console, marketData>>

\* a handler without the last resort
AllAttemptsFailedNoFallback(m) == Respond(m, 500, NoMarketData.d)

\* after the for loop: the row read at the start, or 500
AllAttemptsFailed(m) ==
  IF m.cachedData.found /\ m.cachedData.d.timestamp # Null
    THEN Respond(m, 200, m.cachedData.d)
    ELSE Respond(m, 500, NoMarketData.d)

\* the loop's bound without its limit
MayRetryForever(attempt) == TRUE

\* if (attempt < maxRetries)
MayRetry(attempt) == attempt < maxRetries

\* something in the try block throws (fetch rejects or is aborted, the
\* status is not ok, the body does not parse or has no price, the save
\* rejects): back off and retry, or give up
AttemptFails ==
  /\ market.pc = "fetch"
  /\ LET m == [market EXCEPT !.failures = @ + 1]
     IN  market' = IF MayRetry(market.attempt)
                     THEN [m EXCEPT !.pc = "backoff"]
                     ELSE AllAttemptsFailed(m)
  /\ UNCHANGED <<rules, isRunning, intervalId, armedTimers, passes, strategies,
                 ledger, now, ruleIdsMinted, response, console, marketData>>

\* the backoff delay is over: the next attempt fetches
BackoffDone ==
  /\ market.pc = "backoff"
  /\ market' = [market EXCEPT !.pc = "fetch", !.attempt = @ + 1, !.calls = @ + 1]
  /\ UNCHANGED <<rules, isRunning, intervalId, armedTimers, passes, strategies,
                 ledger, now, ruleIdsMinted, response, console, marketData>>

(***************************************************************************)
(* The engine                                                              *)
(***************************************************************************)

Init ==
  /\ rules = <<defaultRule>>
  /\ isRunning = FALSE
  /\ intervalId = NoTimer
  /\ armedTimers = {}
  /\ passes = EmptyBag
  /\ strategies = <<>>
  /\ ledger = <<>>
  /\ now = 0
  /\ ruleIdsMinted = 0
  /\ response = NoResponse
  /\ console = "Loaded 1 automation rules"
  /\ marketData = <<>>
  /\ market = IdleMarket

\* what fetchCurrentSignals delivers while the engine runs
EngineFeeds == {<<simulatedSignal>>}
EnginePrices == {45000}

Next ==
  \/ Start
  \/ Stop
  \/ \E h \in armedTimers : Tick(h)
  \/ \E ps \in BagToSet(passes), feed \in EngineFeeds : FetchDone(ps, feed)
  \/ \E ps \in BagToSet(passes) : StrategyDone(ps)
  \/ \E ps \in BagToSet(passes), price \in EnginePrices : TxReadDone(ps, price)
  \/ \E ps \in BagToSet(passes) : CreateDone(ps)
  \/ \E ps \in BagToSet(passes) : FetchRejects(ps)
  \/ \E ps \in BagToSet(passes) : StrategyRejects(ps)
  \/ \E ps \in BagToSet(passes) : TxReadRejects(ps)
  \/ \E ps \in BagToSet(passes) : CreateRejects(ps)
  \/ Advance
  \/ \E rule \in EngineRules : addAutomationRule(rule)
  \/ \E rule \in EngineRules : removeAutomationRule(rule.id)
  \/ \E active \in BOOLEAN, amount \in StrategyAmounts :
       createDCAStrategy("u1", amount, active)

Spec == Init /\ [][Next]_vars

(***************************************************************************)
(* One pass over a registry, a ledger history and a feed drawn from wider  *)
(* sets: the engine is started once from a quiescent state and its initial *)
(* pass runs; no timer tick is taken.                                      *)
(***************************************************************************)
EvalRules ==
  { defaultRule,
    formRule,
    \* accepts low-confidence signals
    Rule("r2", "u1", "s1", 60, 50, TRUE, {"RSI", "MACD"}, 30, {"buy", "strong_buy"}),
    \* the same, switched off
    Rule("r3", "u1", "s1", 60, 50, FALSE, {"RSI", "MACD"}, 30, {"buy", "strong_buy"}),
    \* scales the amount up to 2x, and takes any strength and low confidence
    Rule("r4", "u2", "s1", 0, 200, TRUE, {"RSI"}, 30, {"buy"}),
    \* adjustment capped below the gate's floor
    Rule("r5", "u2", "s1", 60, 40, TRUE, {"RSI"}, 70, {"buy"}) }

\* registries of one or two rules, as a sequence of adds and removes leaves them
EvalRegistries ==
  {<<r>> : r \in EvalRules} \cup
  {<<pair[1], pair[2]>> :
     pair \in {pr \in EvalRules \X EvalRules : pr[1].id # pr[2].id}}

EvalFeeds ==
  { <<simulatedSignal>>,
    <<Signal("RSI", "buy", 75, 40)>>,
    <<Signal("RSI", "buy", 75, 40), simulatedSignal>>,
    <<Signal("RSI", "sell", 75, 85), simulatedSignal>>,
    <<Signal("BB_Position", "buy", 75, 85)>>,
    <<Signal("RSI", "sell", 75, 85)>>,
    <<Signal("RSI", "buy", 75, 20)>>,
    <<Signal("RSI", "buy", 50, 85)>>,
    <<Signal("RSI", "buy", 60, 85), Signal("MACD", "buy", 90, 75)>>,
    <<Signal("RSI", "buy", 100, 85)>>,
    <<>> }

evalStrategy(active) == Strategy("s1", "u1", 333, active)

\* base amounts of the strategy, in cents (decimal(10, 2))
EvalAmounts == {5, 333, 500}

\* the transaction formRule leaves at time t on the simulated signal
pastTransaction(t) ==
  Transaction(formRule, <<simulatedSignal>>, evalStrategy(TRUE),
              AdjustmentNum(formRule, <<simulatedSignal>>), 45000, t)

\* ledgers earlier passes leave: purchases minInterval apart
EvalLedgers ==
  { <<>>, <<pastTransaction(0)>>, <<pastTransaction(0), pastTransaction(minInterval)>> }

InitEval ==
  /\ rules \in EvalRegistries
  /\ isRunning = FALSE
  /\ intervalId = NoTimer
  /\ armedTimers = {}
  /\ passes = EmptyBag
  /\ ledger \in EvalLedgers
  /\ strategies \in IF ledger = <<>>
                      THEN {<<>>, <<evalStrategy(FALSE)>>} \cup
                           {<<[evalStrategy(TRUE) EXCEPT !.amount = amount]>> :
                              amount \in EvalAmounts}
                      ELSE {<<evalStrategy(TRUE)>>}
  /\ now \in {t \in 0..MaxTime : \A k \in 1..Len(ledger) : ledger[k].executedAt <= t}
  /\ ruleIdsMinted = 0
  /\ response = NoResponse
  /\ console = IF ledger = <<>> THEN "Loaded 1 automation rules"
                                ELSE "Trading Bot Service stopped"
  /\ marketData = <<>>
  /\ market = IdleMarket

NextEval ==
  \/ Start
  \/ \E ps \in BagToSet(passes), feed \in EvalFeeds : FetchDone(ps, feed)
  \/ \E ps \in BagToSet(passes) : StrategyDone(ps)
  \/ \E ps \in BagToSet(passes), price \in Prices : TxReadDone(ps, price)
  \/ \E ps \in BagToSet(passes) : CreateDone(ps)
  \/ \E ps \in BagToSet(passes) : FetchRejects(ps)
  \/ \E ps \in BagToSet(passes) : StrategyRejects(ps)
  \/ \E ps \in BagToSet(passes) : TxReadRejects(ps)
  \/ \E ps \in BagToSet(passes) : CreateRejects(ps)
  \/ Advance

SpecEval == InitEval /\ [][NextEval]_vars

(***************************************************************************)
(* The rule routes: requests that differ from the client's form defaults   *)
(* in one field, by two users                                              *)
(***************************************************************************)
formConditions == Conditions(Array({"RSI", "MACD"}), Num(70), Array({"buy", "strong_buy"}))

formRequest(user) == Request(user, "s1", Num(60), Num(50), formConditions)

ApiRequests ==
  UNION { { formRequest(user) }
          \cup { [formRequest(user) EXCEPT !.strategyId = id] : id \in {"", "s2"} }
          \cup { [formRequest(user) EXCEPT !.signalThreshold = v] :
                   v \in {Undefined, Text, Num(-10), Num(0), Num(100), Num(150)} }
          \cup { [formRequest(user) EXCEPT !.maxAdjustment = v] :
                   v \in {Undefined, Text, Num(-10), Num(0), Num(200), Num(250)} }
          \cup { [formRequest(user) EXCEPT !.conditions = NoConditions] }
          \cup { [formRequest(user) EXCEPT !.conditions.minConfidence = v] :
                   v \in {Undefined, Num(-10), Num(0), Num(100), Num(500)} }
          \cup { [formRequest(user) EXCEPT !.conditions.indicators = a] :
                   a \in {NoArray, Array({}), Array({"RSI", "Moon"})} }
          \cup { [formRequest(user) EXCEPT !.conditions.actions = a] :
                   a \in {NoArray, Array({}), Array({"buy", "panic"})} }
          : user \in Users }

\* rules handed to addAutomationRule directly
ApiRules == {formRule, [formRule EXCEPT !.isActive = FALSE]}

NextApi ==
  \/ \E req \in ApiRequests : PostRule(req)
  \/ \E user \in Users, ruleId \in {"default-btc-rule", "r1", "rule_1"} :
       DeleteRule(user, ruleId)
  \/ \E rule \in ApiRules : addAutomationRule(rule)
  \/ \E user \in Users, active \in BOOLEAN, amount \in StrategyAmounts :
       createDCAStrategy(user, amount, active)

SpecApi == Init /\ [][NextApi]_vars

(***************************************************************************)
(* The running engine with a rule whose signals always match: a registered *)
(* rule on an active strategy, the feed of fetchCurrentSignals (it passes  *)
(* the rule's filter and the gate's signal tests), collaborator calls that *)
(* return, and timers that fire                                            *)
(***************************************************************************)
liveStrategy == Strategy("s1", "u1", 333, TRUE)

InitLive ==
  /\ rules = <<defaultRule, formRule>>
  /\ isRunning = FALSE
  /\ intervalId = NoTimer
  /\ armedTimers = {}
  /\ passes = EmptyBag
  /\ strategies = <<liveStrategy>>
  /\ ledger = <<>>
  /\ now = 0
  /\ ruleIdsMinted = 0
  /\ response = NoResponse
  /\ console = "Added automation rule"
  /\ marketData = <<>>
  /\ market = IdleMarket

NextLive ==
  \/ Start
  \/ Stop
  \/ \E h \in armedTimers : Tick(h)
  \/ \E ps \in BagToSet(passes), feed \in EngineFeeds : FetchDone(ps, feed)
  \/ \E ps \in BagToSet(passes) : StrategyDone(ps)
  \/ \E ps \in BagToSet(passes), price \in EnginePrices : TxReadDone(ps, price)
  \/ \E ps \in BagToSet(passes) : CreateDone(ps)
  \/ Advance

\* an armed interval timer keeps firing, and every awaited call of a pass
\* resolves
LiveFairness ==
  /\ WF_vars(\E h \in armedTimers : Tick(h))
  /\ WF_vars(\E ps \in BagToSet(passes), feed \in EngineFeeds : FetchDone(ps, feed))
  /\ WF_vars(\E ps \in BagToSet(passes) : StrategyDone(ps))
  /\ WF_vars(\E ps \in BagToSet(passes), price \in EnginePrices : TxReadDone(ps, price))
  /\ WF_vars(\E ps \in BagToSet(passes) : CreateDone(ps))

SpecLive == InitLive /\ [][NextLive]_vars /\ LiveFairness

(***************************************************************************)
(* The market route: one request at a time, while the clock runs           *)
(***************************************************************************)
NextMarket ==
  \/ \E symbol \in Symbols : MarketRequest(symbol)
  \/ \E symbol \in Symbols : CacheReadRejects(symbol)
  \/ \E price \in UpstreamPrices : UpstreamData(price)
  \/ UpstreamUnknown
  \/ AttemptFails
  \/ BackoffDone
  \/ Advance

SpecMarket == Init /\ [][NextMarket]_vars

(***************************************************************************)
(* Properties                                                              *)
(***************************************************************************)
\* everything but the console
engineVars == <<rules, isRunning, intervalId, armedTimers, passes, strategies,
                ledger, now, ruleIdsMinted, response>>

Suspended(ps) == ps.pc \in {"getStrategy", "getTx", "createTx"}

\* mean confidence of a non-empty signal list is below 0.7
LowConfidence(signals) == SumConfidence(signals) < 70 * Len(signals)

\* C1: cooldown enforcement. No transaction is appended for a strategy less
\* than 15 minutes after any transaction the ledger holds for that strategy:
\* any two ledger entries of one strategy lie at least minInterval apart.
C1_CooldownEnforced ==
  \A j \in 1..Len(ledger) : \A k \in 1..(j - 1) :
    ledger[k].strategyId = ledger[j].strategyId
      => ledger[j].executedAt - ledger[k].executedAt >= minInterval

\* C2: at no time are two processing passes in flight.
C2_NoOverlappingPasses == InFlight <= 1

\* C3: start() while Running changes nothing (it only logs), and at most one
\* timer is ever armed.
C3_StartIdempotent ==
  /\ [](Cardinality(armedTimers) <= 1)
  /\ [][(isRunning /\ Start) => UNCHANGED engineVars]_vars

C3_Witness ==
  /\ isRunning
  /\ console = "Trading bot is already running"
  /\ armedTimers = {intervalId}

\* C4: stop() while Stopped changes nothing (it only logs); stop() while
\* Running cancels every armed timer and leaves the engine Stopped; and no
\* timer tick starts a pass while the engine is Stopped.
C4_StopCancelsTimer ==
  /\ [][(~isRunning /\ Stop) => UNCHANGED engineVars]_vars
  /\ [][(isRunning /\ Stop) =>
          (~isRunning' /\ intervalId' = NoTimer /\ armedTimers' = {})]_vars
  /\ [][~isRunning => ~(\E h \in armedTimers : Tick(h))]_vars

\* stop() was called on a Running engine whose pass is still in flight, and
\* then again
C4_Witness ==
  /\ ~isRunning
  /\ console = "Trading bot is not running"
  /\ InFlight >= 1

\* C5: no pass evaluates, and no transaction is made for, a rule whose
\* isActive is false.
C5_InactiveRuleSkipped ==
  /\ \A k \in 1..Len(ledger) : ledger[k].by.isActive
  /\ \A ps \in BagToSet(passes) : Suspended(ps) => CurrentRule(ps).isActive

\* the pass went by an inactive first rule that the feed matches and whose
\* strategy is active, and bought for the second rule only
C5_Witness ==
  \E ps \in BagToSet(passes) :
    /\ ps.pc = "createTx" /\ ps.i = 2
    /\ ~ps.rules[1].isActive
    /\ \E k \in 1..Len(ps.signals) :
         /\ ps.signals[k].indicator \in ps.rules[1].conditions.indicators
         /\ ps.signals[k].action \in ps.rules[1].conditions.actions
         /\ ps.signals[k].confidence >= ps.rules[1].conditions.minConfidence
         /\ ps.signals[k].strength >= ps.rules[1].signalThreshold
    /\ getDCAStrategy(ps.rules[1].strategyId).s.isActive
    /\ Len(ledger) = 1

\* C6: the matching set of the rule a pass evaluates holds exactly the
\* signals of the feed that satisfy all four predicates, in feed order, and
\* the pass goes on to the strategy lookup, the ledger read and the write
\* only with a non-empty matching set.
C6_FilterCorrect ==
  \A ps \in BagToSet(passes) :
    Suspended(ps) =>
      /\ ps.relevantSignals # <<>>
      /\ ps.relevantSignals =
           SelectSeq(ps.signals, LAMBDA sig :
             /\ sig.indicator \in CurrentRule(ps).conditions.indicators
             /\ sig.action \in CurrentRule(ps).conditions.actions
             /\ sig.confidence >= CurrentRule(ps).conditions.minConfidence
             /\ sig.strength >= CurrentRule(ps).signalThreshold)

\* a feed of two signals of which the rule under evaluation matches one
C6_Witness ==
  \E ps \in BagToSet(passes) :
    /\ ps.pc = "getTx"
    /\ Len(ps.signals) = 2
    /\ Len(ps.relevantSignals) = 1

\* C7: every purchase was made on matching signals whose mean confidence is
\* at least 0.7: a pass is past the gate, and a transaction is in the
\* ledger, only with such signals.
C7_ConfidenceFloor ==
  /\ \A k \in 1..Len(ledger) : ~LowConfidence(ledger[k].on)
  /\ \A ps \in BagToSet(passes) :
       ps.pc = "createTx" => ~LowConfidence(ps.relevantSignals)

\* the pass is at its second rule; the first rule is active, its strategy
\* is active, its matching signals have mean confidence below 0.7 and an
\* adjustment at or above 0.5, no cooldown applies, and nothing was bought
C7_Witness ==
  \E ps \in BagToSet(passes) :
    /\ ps.i = 2
    /\ ps.rules[1].isActive
    /\ LET rel == relevantSignals(ps.rules[1], ps.signals)
       IN  /\ rel # <<>>
           /\ LowConfidence(rel)
           /\ AdjustmentNum(ps.rules[1], rel) >= 50 * Len(rel)
    /\ getDCAStrategy(ps.rules[1].strategyId).s.isActive
    /\ ledger = <<>>

\* C8: in every reachable state every rule of the registry has signalThreshold
\* in [0,1], conditions.minConfidence in [0,1] and maxAdjustment in [0,2]
\* (hundredths: 0..100, 0..100, 0..200).
C8_RuleRangeInvariant ==
  \A i \in 1..Len(rules) :
    /\ rules[i].signalThreshold \in 0..100
    /\ rules[i].conditions.minConfidence \in 0..100
    /\ rules[i].maxAdjustment \in 0..200

\* a numeric field of the request outside its range
NumericOutOfRange(req) ==
  \/ req.signalThreshold.t = "number" /\ req.signalThreshold.n \notin 0..100
  \/ req.maxAdjustment.t = "number" /\ req.maxAdjustment.n \notin 0..200
  \/ /\ req.conditions.present
     /\ req.conditions.minConfidence.t = "number"
     /\ req.conditions.minConfidence.n \notin 0..100

\* an action or an indicator of the request outside its vocabulary
OutOfVocabulary(req) ==
  /\ req.conditions.present
  /\ \/ req.conditions.actions.present /\ ~(req.conditions.actions.v \subseteq validActions)
     \/ req.conditions.indicators.present /\ ~(req.conditions.indicators.v \subseteq Indicators)

\* C9: a POST /api/bot/rules request with a numeric field out of range, or an
\* action outside {buy, sell, hold, strong_buy, strong_sell}, or an indicator
\* outside the indicator vocabulary, is answered with an error and leaves the
\* rule registry unchanged.
C9_RequestsValidated ==
  [][\A req \in ApiRequests :
       (PostRule(req) /\ (NumericOutOfRange(req) \/ OutOfVocabulary(req)))
         => (response'.status >= 400 /\ rules' = rules)]_vars

\* C10: for every accepted rule-creation request the stored rule has
\* signalThreshold, maxAdjustment and conditions.minConfidence equal to the
\* submitted values; a submitted minConfidence of 0 is stored as 0.
C10_NoSilentCoercion ==
  [][\A req \in ApiRequests :
       (PostRule(req) /\ response'.status = 200)
         => LET stored == rules'[Len(rules')]
            IN  /\ stored.signalThreshold = req.signalThreshold.n
                /\ stored.maxAdjustment = req.maxAdjustment.n
                /\ req.conditions.minConfidence.t = "number"
                     => stored.conditions.minConfidence = req.conditions.minConfidence.n]_vars

\* C11: after add(rule) the listing holds exactly one rule with rule.id and it
\* is the added rule (an add with an id already present replaces); after
\* remove(id) the listing holds no rule with that id; both operations leave
\* every other rule as it was.
C11_RegistryRoundTrip ==
  [][/\ \A rule \in ApiRules :
          addAutomationRule(rule) =>
            LET before == getAutomationRules(rules, "")
                after == getAutomationRules(rules', "")
            IN  /\ Cardinality({k \in 1..Len(after) : after[k].id = rule.id}) = 1
                /\ \E k \in 1..Len(after) : after[k] = rule
                /\ SelectSeq(after, LAMBDA r : r.id # rule.id)
                     = SelectSeq(before, LAMBDA r : r.id # rule.id)
     /\ \A user \in Users, ruleId \in {"default-btc-rule", "r1", "rule_1"} :
          DeleteRule(user, ruleId) =>
            LET before == getAutomationRules(rules, "")
                after == getAutomationRules(rules', "")
            IN  /\ \A k \in 1..Len(after) : after[k].id # ruleId
                /\ after = SelectSeq(before, LAMBDA r : r.id # ruleId)]_vars

\* the default rule has been removed and r1 added, then replaced by its
\* inactive version (or added so), next to a rule the POST route stored
C11_Witness ==
  /\ ~MapHas(rules, "default-btc-rule")
  /\ MapHas(rules, "r1") /\ ~MapGet(rules, "r1").isActive
  /\ MapHas(rules, "rule_1")
  /\ Len(getAutomationRules(rules, "")) = 2

\* C12: removeAutomationRule(id) for an id that is not registered logs its
\* line as for any removal and leaves the registry, the Running/Stopped state
\* and the timer unchanged; a second remove(id) changes nothing the first did
\* not.
C12_RemoveIdempotent ==
  [][\A rule \in EngineRules :
       removeAutomationRule(rule.id) =>
         /\ console' = "Removed automation rule"
         /\ UNCHANGED <<isRunning, intervalId, armedTimers>>
         /\ ~MapHas(rules, rule.id) => rules' = rules
         /\ ~MapHas(rules', rule.id)
         /\ MapDelete(rules', rule.id) = rules']_vars

\* a removal has just run on a running engine whose registry does not hold r1
C12_Witness ==
  /\ console = "Removed automation rule"
  /\ isRunning /\ armedTimers = {intervalId}
  /\ rules = <<defaultRule>>

\* C13: a rejection of the signal fetch, the strategy lookup, the ledger read
\* or the ledger write of a pass is caught by one of the pass's catch blocks
\* (it does not leave processSignals, so neither start() nor the timer
\* callback rejects), leaves the Running/Stopped state and the timer as they
\* were, so that a Running engine still has its timer armed, and a tick of
\* that timer begins a new pass.
C13_PassFailureContained ==
  /\ [][\A ps \in BagToSet(passes) :
          (FetchRejects(ps) \/ StrategyRejects(ps) \/ TxReadRejects(ps) \/ CreateRejects(ps))
            => /\ console' \in {"Error processing signals:", "Error processing rule",
                                "Error executing DCA transaction:"}
               /\ UNCHANGED <<isRunning, intervalId, armedTimers>>
               /\ isRunning' => intervalId' \in armedTimers']_vars
  /\ [][\A h \in armedTimers : Tick(h) => InFlight' = InFlight + 1]_vars

\* the fetch of a pass was rejected on a Running engine, the timer is still
\* armed and a later pass is fetching
C13_Witness ==
  /\ console = "Error processing signals:"
  /\ isRunning /\ armedTimers = {intervalId}
  /\ passes = SetToBag({FetchingPass})

C15_UnusableStrategySkipped ==
  /\ [][\A ps \in BagToSet(passes) :
          (StrategyDone(ps) /\ (~ps.strategy.found \/ ~ps.strategy.s.isActive))
            => /\ ps.relevantSignals # <<>>
               /\ UNCHANGED <<ledger, rules, strategies>>
               /\ console' = "Strategy not found or inactive"
               /\ passes' = Resume(ps, LoopFrom(ps.rules, ps.signals, ps.i + 1))]_vars
  /\ [](\A ps \in BagToSet(passes) :
          ps.pc \in {"getTx", "createTx"}
            => (ps.strategy.found /\ ps.strategy.s.isActive))

\* a pass over active rules skipped on an inactive strategy and is over;
\* nothing was bought
C15_Witness ==
  /\ console = "Strategy not found or inactive"
  /\ strategies = <<evalStrategy(FALSE)>>
  /\ \A k \in 1..Len(rules) : rules[k].isActive
  /\ ledger = <<>>
  /\ isRunning /\ InFlight = 0

\* C16: in every reachable state the rule count getStatus() returns is the
\* number of registered rules whose isActive is true.
C16_StatusCountsActiveRules ==
  getStatus.activeRules = Cardinality({k \in 1..Len(rules) : rules[k].isActive})

\* C17: while Stopped the uptime getStatus() returns is null; a start() from
\* Stopped makes it the instant of that start; and it is the same value on
\* every getStatus() call for as long as the engine stays Running.
C17_UptimeSinceStart ==
  /\ [](~isRunning => getStatus.uptime = Null)
  /\ [][(~isRunning /\ Start) => getStatus'.uptime = now]_vars
  /\ [][(isRunning /\ isRunning') => getStatus'.uptime = getStatus.uptime]_vars

\* the gate's verdict for the rule pass ps is evaluating
GateAccepts(ps) ==
  shouldExecuteTransaction(ps.relevantSignals,
    AdjustmentNum(CurrentRule(ps), ps.relevantSignals), ps.recentTransactions, now)

\* C18: every step leaves the ledger's entries as they were and in place (the
\* ledger after extends the ledger before); the evaluation of a rule whose
\* gate accepts appends exactly one transaction when its write is made, and
\* one whose gate refuses appends none; and nothing else changes the ledger.
C18_LedgerAppendOnly ==
  /\ [][/\ Len(ledger') >= Len(ledger)
        /\ SubSeq(ledger', 1, Len(ledger)) = ledger]_vars
  /\ [][\A ps \in BagToSet(passes), price \in EnginePrices :
          TxReadDone(ps, price) =>
            IF GateAccepts(ps)
              THEN /\ Len(ledger') = Len(ledger) + 1
                   /\ ledger'[Len(ledger')].by = CurrentRule(ps)
              ELSE ledger' = ledger]_vars
  /\ [][ledger' # ledger =>
          \E ps \in BagToSet(passes), price \in EnginePrices : TxReadDone(ps, price)]_vars

\* two passes have each made one purchase, the second after the first, and
\* have finished
C18_Witness ==
  /\ Len(ledger) = 2
  /\ ledger[1].executedAt < ledger[2].executedAt
  /\ InFlight = 0

\* C19: a transaction bought with adjustment = 0.5 records the strategy's base
\* amount exactly.
C19_AdjustmentMidpoint ==
  \A k \in 1..Len(ledger) :
    AdjustmentNum(ledger[k].by, ledger[k].on) = 50 * Len(ledger[k].on)
      => ledger[k].amount = MapGet(strategies, ledger[k].strategyId).amount

\* a pass bought on two matching signals with adjustment 0.5 for a strategy
\* of base amount 5.00
C19_Witness ==
  /\ Len(ledger) = 1
  /\ Len(ledger[1].on) = 2
  /\ AdjustmentNum(ledger[1].by, ledger[1].on) = 50 * Len(ledger[1].on)
  /\ ledger[1].amount = 500
  /\ MapGet(strategies, ledger[1].strategyId).amount = 500

\* C20: start() from Stopped makes the engine Running and begins the immediate
\* pass without having armed the timer (the timer is armed only once that pass
\* is over), so while that pass is in flight no tick can fire.
C20_TimerArmedAfterImmediatePass ==
  [][(~isRunning /\ Start)
       => /\ isRunning'
          /\ InFlight' = InFlight + 1
          /\ intervalId' = NoTimer
          /\ armedTimers' = {}]_vars

\* adjustment = min(r.maxAdjustment, mean strength of the matching signals) of
\* ledger entry tx, as a numerator over the number of matching signals
AdjustmentOf(tx) ==
  IF tx.by.maxAdjustment * Len(tx.on) <= SumStrength(tx.on)
    THEN tx.by.maxAdjustment * Len(tx.on)
    ELSE SumStrength(tx.on)

\* s.amount * (1 + (adjustment - 0.5)) of ledger entry tx, in cents, as a
\* numerator over 100 * the number of matching signals
ExactAmountNum(tx) ==
  MapGet(strategies, tx.strategyId).amount
    * (100 * Len(tx.on) + AdjustmentOf(tx) - 50 * Len(tx.on))

\* C21 as stated: every transaction has strategyId = r.strategyId = s.id,
\* amount = s.amount * (1 + (adjustment - 0.5)) exactly, and asset amount =
\* the recorded amount / the recorded price (to the 8 decimals recorded).
C21_TransactionContentExact ==
  \A k \in 1..Len(ledger) :
    /\ ledger[k].strategyId = ledger[k].by.strategyId
    /\ MapHas(strategies, ledger[k].strategyId)
    /\ ledger[k].amount * 100 * Len(ledger[k].on) = ExactAmountNum(ledger[k])
    /\ ledger[k].btcAmount = RoundDiv(ledger[k].amount * 1000000, ledger[k].btcPrice)

\* C21, amended: every transaction has strategyId = r.strategyId = s.id; its
\* amount is s.amount * (1 + (adjustment - 0.5)) rounded to 2 decimals; and
\* its asset amount is the unrounded amount / price, rounded to 8 decimals.
C21_TransactionContent ==
  \A k \in 1..Len(ledger) :
    /\ ledger[k].strategyId = ledger[k].by.strategyId
    /\ MapHas(strategies, ledger[k].strategyId)
    /\ ledger[k].amount = RoundDiv(ExactAmountNum(ledger[k]), 100 * Len(ledger[k].on))
    /\ ledger[k].btcAmount =
         RoundDiv(ExactAmountNum(ledger[k]) * 10000, Len(ledger[k].on) * ledger[k].btcPrice)

\* a purchase of 3.33 * 1.25 = 4.1625, recorded as 4.16, whose asset amount
\* is not that of 4.16
C21_Witness ==
  \E k \in 1..Len(ledger) :
    /\ ledger[k].executedAt = now
    /\ AdjustmentOf(ledger[k]) = 75 * Len(ledger[k].on)
    /\ MapGet(strategies, ledger[k].strategyId).amount = 333
    /\ ledger[k].amount = 416
    /\ ledger[k].btcAmount # RoundDiv(ledger[k].amount * 1000000, ledger[k].btcPrice)

\* C22: every transaction of the ledger carries a price the market-data
\* collaborator has supplied (a row of the market data it keeps); with no
\* such price the execution aborts and nothing is appended.
C22_NoFabricatedPrice ==
  \A k \in 1..Len(ledger) :
    \E j \in 1..Len(marketData) : marketData[j].price = ledger[k].btcPrice

\* the strategy a request names exists and belongs to the requester
OwnsStrategy(req) ==
  /\ getDCAStrategy(req.strategyId).found
  /\ getDCAStrategy(req.strategyId).s.userId = req.userId

\* C23: POST /api/bot/rules adds a rule only if the strategy it names exists
\* and belongs to the requester; otherwise it answers with an error and the
\* registry is unchanged.
C23_StrategyOwnershipChecked ==
  [][\A req \in ApiRequests :
       (PostRule(req) /\ ~OwnsStrategy(req))
         => (response'.status >= 400 /\ rules' = rules)]_vars

\* C24: initially the engine is Stopped with no timer and the registry holds
\* exactly the default rule; and in every reachable state intervalId is
\* non-null exactly when isRunning is true, the handle it holds being the one
\* armed timer (none when it is null).
C24_TimerIffRunning ==
  /\ (~isRunning /\ intervalId = NoTimer /\ armedTimers = {} /\ rules = <<defaultRule>>)
  /\ [](/\ (intervalId # NoTimer) <=> isRunning
        /\ armedTimers = IF isRunning THEN {intervalId} ELSE {})

\* the engine was stopped while a pass was in flight: no timer is left
C24_Witness ==
  /\ ~isRunning /\ intervalId = NoTimer /\ armedTimers = {}
  /\ console = "Trading Bot Service stopped"
  /\ InFlight >= 1
  /\ Len(ledger) >= 1

\* C25: once a rule has been removed from the registry no transaction is
\* appended on its behalf: a pass appends a transaction only for a rule whose
\* id the registry holds at that moment.
C25_RemovalTakesEffect ==
  [][\A ps \in BagToSet(passes), price \in EnginePrices :
       (TxReadDone(ps, price) /\ ledger' # ledger)
         => MapHas(rules, CurrentRule(ps).id)]_vars

\* C26 as stated: every transaction for strategy s has
\* s.amount <= amount <= 1.5 * s.amount, and was made by a rule whose
\* maxAdjustment is at least 0.5.
C26_AmountBounds ==
  \A k \in 1..Len(ledger) :
    LET base == MapGet(strategies, ledger[k].strategyId).amount
    IN  /\ base <= ledger[k].amount
        /\ 2 * ledger[k].amount <= 3 * base
        /\ ledger[k].by.maxAdjustment >= 50

\* C26, amended: every transaction for strategy s has s.amount <= amount, and
\* amount is at most 1.5 * s.amount rounded to 2 decimals (it exceeds
\* 1.5 * s.amount by at most half a cent), and was made by a rule whose
\* maxAdjustment is at least 0.5.
C26_AmountBoundsRounded ==
  \A k \in 1..Len(ledger) :
    LET base == MapGet(strategies, ledger[k].strategyId).amount
    IN  /\ base <= ledger[k].amount
        /\ 2 * ledger[k].amount <= 3 * base + 1
        /\ ledger[k].by.maxAdjustment >= 50

\* a purchase at adjustment 1.0 for base 3.33: 4.995, recorded as 5.00
C26_Witness ==
  \E k \in 1..Len(ledger) :
    /\ AdjustmentOf(ledger[k]) = 100 * Len(ledger[k].on)
    /\ MapGet(strategies, ledger[k].strategyId).amount = 333
    /\ ledger[k].amount = 500

\* C27: DELETE /api/bot/rules/:ruleId removes the rule only when the rule's
\* userId equals the requester's id; a request for another user's rule leaves
\* the registry as it was.
C27_DeleteOwnRulesOnly ==
  [][\A user \in Users, ruleId \in {"default-btc-rule", "r1", "rule_1"} :
       (/\ DeleteRule(user, ruleId)
        /\ MapHas(rules, ruleId)
        /\ MapGet(rules, ruleId).userId # user)
         => rules' = rules]_vars

\* the rows of a symbol that are younger than 3 minutes at time t
YoungRows(symbol, t) ==
  {k \in 1..Len(marketData) :
     /\ marketData[k].symbol = symbol
     /\ (t - marketData[k].timestamp) * MsPerUnit < 3 * 60 * 1000}

C29_FreshServed ==
  /\ market.pc = "done"
  /\ market.calls = 0
  /\ market.status = 200
  /\ market.cachedData.found

\* C30: when all 3 attempts of a request have failed the handler has answered:
\* with a cached entry of the symbol if there is one, however old, and with 500
\* only if there is none; a request is answered exactly once.
C30_StaleCacheFallback ==
  /\ market.failures = maxRetries
       => /\ market.pc = "done"
          /\ LET rows == {k \in 1..Len(marketData) :
                            marketData[k].symbol = market.symbol}
             IN  IF rows # {}
                   THEN /\ market.status = 200
                        /\ \E k \in rows : market.data = marketData[k]
                   ELSE market.status = 500
  /\ market.responses = (IF market.pc = "done" THEN 1 ELSE 0)

\* three attempts failed and an entry older than 3 minutes was served
C30_Witness ==
  /\ market.failures = maxRetries
  /\ market.status = 200
  /\ market.cachedData.found
  /\ market.data = market.cachedData.d
  /\ (market.requestedAt - market.data.timestamp) * MsPerUnit >= CACHE_DURATION_MS

\* the engine runs, formRule is registered and active, its strategy exists
\* and is active
LiveStable ==
  /\ isRunning
  /\ MapHas(rules, formRule.id)
  /\ MapGet(rules, formRule.id).isActive
  /\ getDCAStrategy(formRule.strategyId).found
  /\ getDCAStrategy(formRule.strategyId).s.isActive

\* no transaction of the strategy within the last 15 minutes
NoRecentTransaction(strategyId) ==
  \A k \in 1..Len(ledger) :
    ledger[k].strategyId = strategyId => (now - ledger[k].executedAt) * MsPerUnit >= 15 * 60 * 1000

\* C28: from every state in which the engine runs, the rule is registered and
\* active on an existing active strategy and the strategy has no transaction
\* within the last 15 minutes, a further transaction of the strategy is
\* eventually appended, unless the engine is stopped before (timers fire and
\* awaited calls resolve; the signals of every pass match the rule with mean
\* confidence >= 0.7 and adjustment >= 0.5).
C28_EventualExecution ==
  \A n \in 0..(MaxLedger - 1) :
    (/\ LiveStable
     /\ NoRecentTransaction(formRule.strategyId)
     /\ Len(getDCATransactions(formRule.strategyId)) = n)
      ~> (\/ Len(getDCATransactions(formRule.strategyId)) > n
          \/ ~LiveStable)

\* a second purchase, made 15 minutes after the first while the engine kept
\* running
C28_Witness ==
  /\ isRunning
  /\ Len(ledger) = 2
  /\ ledger[1].executedAt = 0
  /\ ledger[2].executedAt = 1
  /\ ledger[2].by.id = formRule.id

====
